---- MODULE Spec2Model ----
(***************************************************************************)
(* Model of src-tauri/src/main.rs: the bootstrap of a Tauri application.   *)
(*                                                                         *)
(*   #![cfg_attr(not(debug_assertions), windows_subsystem = "windows")]    *)
(*   fn main() {                                                           *)
(*     tauri::Builder::default()                                           *)
(*       .plugin(tauri_plugin_sql::Builder::default().build())             *)
(*       .run(tauri::generate_context!())                                  *)
(*       .expect("error while running tauri application");                 *)
(*   }                                                                     *)
(*                                                                         *)
(* The program is compiled in two build configurations (debug_assertions   *)
(* on or off).  Both builds are modelled side by side, every variable      *)
(* being a function of the build, so that statements comparing the two     *)
(* builds are state predicates.  The framework behind run (start-up, the   *)
(* event loop, the close request) is the environment of main: its outcome  *)
(* is an input, drawn per build from a small set.                          *)
(***************************************************************************)
EXTENDS Naturals, Sequences, FiniteSets

\* Bound on the number of events the run loop services before the close.
MaxEvents == 2

\* The two build configurations: debug_assertions on, debug_assertions off.
Builds == {"debug", "release"}

\* cfg(debug_assertions) of a build.
debug_assertions(b) == b = "debug"

\* cfg_attr(not(debug_assertions), windows_subsystem = "windows"): the
\* subsystem the executable of build b is linked for.
windows_subsystem(b) == IF ~debug_assertions(b) THEN "windows" ELSE "console"

\* The start-up failures the framework's run call can report.
Causes == {"window", "display", "plugin"}

\* What the environment of a build lets the framework's start-up do.
Envs == {"ok"} \cup Causes

\* What the run loop services: window events and plugin callbacks.
EventKinds == {"window", "plugin"}

\* Who asks the application to close.
Closers == {"user", "system"}

\* The message literal handed to expect.
ExpectMsg == "error while running tauri application"

\* The plugin instance tauri_plugin_sql::Builder::default().build() yields.
SqlPlugin == "sql"

VARIABLES
    env,         \* env[b]: the environment of build b (input)
    pc,          \* pc[b]: position of main
    plugins,     \* plugins[b]: plugins registered on the tauri::Builder
    arg,         \* arg[b]: evaluated, not yet consumed, call argument
    context,     \* context[b]: TRUE once generate_context!() was evaluated
    phase,       \* phase[b]: phase of the framework's run routine
    events,      \* events[b]: events serviced by the run loop so far
    closedBy,    \* closedBy[b]: who closed the application, "none" if open
    runResult,   \* runResult[b]: <<>> | <<"Ok">> | <<"Err", cause>>
    diagnostic,  \* diagnostic[b]: <<>> | <<message, error detail>>
    exitCode,    \* exitCode[b]: <<>> while the process lives, else <<status>>
    trace        \* trace[b]: the bootstrap steps main has taken (history)

vars == <<env, pc, plugins, arg, context, phase, events, closedBy,
          runResult, diagnostic, exitCode, trace>>

\* Result<(), tauri::Error> values.
Ok == <<"Ok">>
Err(cause) == <<"Err", cause>>
IsErr(r) == Len(r) = 2 /\ r[1] = "Err"

\* Positions of main at which the process has ended.
Terminal == {"exited", "panicked"}

\* Positions of main before the run call is made.
BeforeRun == {"start", "builder", "plugin_built", "configured", "context"}

\* Positions of main after the run call has returned.
PastRun == {"returned", "unwrapped", "exited", "panicked"}

Init ==
    /\ env \in [Builds -> Envs]
    /\ pc = [b \in Builds |-> "start"]
    /\ plugins = [b \in Builds |-> <<>>]
    /\ arg = [b \in Builds |-> <<>>]
    /\ context = [b \in Builds |-> FALSE]
    /\ phase = [b \in Builds |-> "idle"]
    /\ events = [b \in Builds |-> <<>>]
    /\ closedBy = [b \in Builds |-> "none"]
    /\ runResult = [b \in Builds |-> <<>>]
    /\ diagnostic = [b \in Builds |-> <<>>]
    /\ exitCode = [b \in Builds |-> <<>>]
    /\ trace = [b \in Builds |-> <<>>]

\* tauri::Builder::default(): a builder with no plugin registered.
BuilderDefault(b) ==
    /\ pc[b] = "start"
    /\ plugins' = [plugins EXCEPT ![b] = <<>>]
    /\ pc' = [pc EXCEPT ![b] = "builder"]
    /\ trace' = [trace EXCEPT ![b] = Append(@, "construct")]
    /\ UNCHANGED <<env, arg, context, phase, events, closedBy, runResult,
                   diagnostic, exitCode>>

\* tauri_plugin_sql::Builder::default().build(): the argument of .plugin.
SqlBuilderBuild(b) ==
    /\ pc[b] = "builder"
    /\ arg' = [arg EXCEPT ![b] = <<SqlPlugin>>]
    /\ pc' = [pc EXCEPT ![b] = "plugin_built"]
    /\ trace' = [trace EXCEPT ![b] = Append(@, "build_plugin")]
    /\ UNCHANGED <<env, plugins, context, phase, events, closedBy, runResult,
                   diagnostic, exitCode>>

\* A registration that drops the plugin it is given.
PluginDropped(b) ==
    /\ pc[b] = "plugin_built"
    /\ arg' = [arg EXCEPT ![b] = <<>>]
    /\ pc' = [pc EXCEPT ![b] = "configured"]
    /\ trace' = [trace EXCEPT ![b] = Append(@, "plugin")]
    /\ UNCHANGED <<env, plugins, context, phase, events, closedBy, runResult,
                   diagnostic, exitCode>>

\* A registration that fails and takes the process down.
PluginPanics(b) ==
    /\ pc[b] = "plugin_built"
    /\ arg' = [arg EXCEPT ![b] = <<>>]
    /\ diagnostic' = [diagnostic EXCEPT ![b] = <<"plugin", "plugin">>]
    /\ exitCode' = [exitCode EXCEPT ![b] = <<101>>]
    /\ pc' = [pc EXCEPT ![b] = "panicked"]
    /\ trace' = [trace EXCEPT ![b] = Append(@, "panic")]
    /\ UNCHANGED <<env, plugins, context, phase, events, closedBy, runResult>>

\* .plugin(...): registers the plugin on the builder.
Plugin(b) ==
    /\ pc[b] = "plugin_built"
    /\ plugins' = [plugins EXCEPT ![b] = Append(@, arg[b][1])]
    /\ arg' = [arg EXCEPT ![b] = <<>>]
    /\ pc' = [pc EXCEPT ![b] = "configured"]
    /\ trace' = [trace EXCEPT ![b] = Append(@, "plugin")]
    /\ UNCHANGED <<env, context, phase, events, closedBy, runResult,
                   diagnostic, exitCode>>

\* tauri::generate_context!(): the argument of .run.
GenerateContext(b) ==
    /\ pc[b] = "configured"
    /\ context' = [context EXCEPT ![b] = TRUE]
    /\ pc' = [pc EXCEPT ![b] = "context"]
    /\ trace' = [trace EXCEPT ![b] = Append(@, "context")]
    /\ UNCHANGED <<env, plugins, arg, phase, events, closedBy, runResult,
                   diagnostic, exitCode>>

\* A run call that starts the framework without blocking in it.
RunDetached(b) ==
    /\ pc[b] = "context"
    /\ pc' = [pc EXCEPT ![b] = "returned"]
    /\ phase' = [phase EXCEPT ![b] = "done"]
    /\ runResult' = [runResult EXCEPT ![b] = Ok]
    /\ trace' = [trace EXCEPT ![b] = Append(@, "run")]
    /\ UNCHANGED <<env, plugins, arg, context, events, closedBy, diagnostic,
                   exitCode>>

\* .run(context): main enters the framework's run routine and blocks in it.
Run(b) ==
    /\ pc[b] = "context"
    /\ pc' = [pc EXCEPT ![b] = "run"]
    /\ phase' = [phase EXCEPT ![b] = "setup"]
    /\ trace' = [trace EXCEPT ![b] = Append(@, "run")]
    /\ UNCHANGED <<env, plugins, arg, context, events, closedBy, runResult,
                   diagnostic, exitCode>>

\* Inside run: the framework's start-up.  It enters the event loop, or run
\* returns the failure the environment causes.
RunSetup(b) ==
    /\ pc[b] = "run"
    /\ phase[b] = "setup"
    /\ IF env[b] = "ok"
       THEN /\ phase' = [phase EXCEPT ![b] = "loop"]
            /\ UNCHANGED <<pc, runResult>>
       ELSE /\ phase' = [phase EXCEPT ![b] = "done"]
            /\ runResult' = [runResult EXCEPT ![b] = Err(env[b])]
            /\ pc' = [pc EXCEPT ![b] = "returned"]
    /\ UNCHANGED <<env, plugins, arg, context, events, closedBy, diagnostic,
                   exitCode, trace>>

\* Inside run: the event loop services one event.
ServiceEvent(b) ==
    /\ pc[b] = "run"
    /\ phase[b] = "loop"
    /\ closedBy[b] = "none"
    /\ Len(events[b]) < MaxEvents
    /\ \E e \in EventKinds : events' = [events EXCEPT ![b] = Append(@, e)]
    /\ UNCHANGED <<env, pc, plugins, arg, context, phase, closedBy, runResult,
                   diagnostic, exitCode, trace>>

\* Inside run: the user or the system closes the application.
Close(b) ==
    /\ pc[b] = "run"
    /\ phase[b] = "loop"
    /\ closedBy[b] = "none"
    /\ \E c \in Closers : closedBy' = [closedBy EXCEPT ![b] = c]
    /\ UNCHANGED <<env, pc, plugins, arg, context, phase, events, runResult,
                   diagnostic, exitCode, trace>>

\* The run loop ends after the close and run returns Ok(()).
RunReturn(b) ==
    /\ pc[b] = "run"
    /\ phase[b] = "loop"
    /\ closedBy[b] # "none"
    /\ phase' = [phase EXCEPT ![b] = "done"]
    /\ runResult' = [runResult EXCEPT ![b] = Ok]
    /\ pc' = [pc EXCEPT ![b] = "returned"]
    /\ UNCHANGED <<env, plugins, arg, context, events, closedBy, diagnostic,
                   exitCode, trace>>

\* The number of occurrences of step x in the history t.
Count(t, x) == Cardinality({i \in 1..Len(t) : t[i] = x})

\* The panic of expect: the message, the error's detail, exit status 101.
Panic(b, msg, detail) ==
    /\ diagnostic' = [diagnostic EXCEPT ![b] = <<msg, detail>>]
    /\ exitCode' = [exitCode EXCEPT ![b] = <<101>>]
    /\ pc' = [pc EXCEPT ![b] = "panicked"]
    /\ trace' = [trace EXCEPT ![b] = Append(@, "panic")]
    /\ UNCHANGED runResult

\* The Ok arm of expect: the value is unwrapped and main goes on.
Unwrap(b) ==
    /\ pc' = [pc EXCEPT ![b] = "unwrapped"]
    /\ trace' = [trace EXCEPT ![b] = Append(@, "expect")]
    /\ UNCHANGED <<runResult, diagnostic, exitCode>>

\* An expect that discards the failure and goes on.
ExpectIgnoresErr(b) ==
    /\ pc[b] = "returned"
    /\ Unwrap(b)
    /\ UNCHANGED <<env, plugins, arg, context, phase, events, closedBy>>

\* An expect that panics on the Ok outcome as well (expect_err).
ExpectPanicsOnOk(b) ==
    /\ pc[b] = "returned"
    /\ Panic(b, ExpectMsg, IF IsErr(runResult[b]) THEN runResult[b][2] ELSE "()")
    /\ UNCHANGED <<env, plugins, arg, context, phase, events, closedBy>>

\* An expect compiled in for the console build only.
ExpectSilentInWindows(b) ==
    /\ pc[b] = "returned"
    /\ IF IsErr(runResult[b])
       THEN Panic(b, IF windows_subsystem(b) = "windows" THEN "" ELSE ExpectMsg,
                  runResult[b][2])
       ELSE Unwrap(b)
    /\ UNCHANGED <<env, plugins, arg, context, phase, events, closedBy>>

\* A failure handler that builds the application again, once.
ExpectRetry(b) ==
    /\ pc[b] = "returned"
    /\ IF IsErr(runResult[b])
       THEN IF Count(trace[b], "run") < 2
            THEN /\ pc' = [pc EXCEPT ![b] = "start"]
                 /\ runResult' = [runResult EXCEPT ![b] = <<>>]
                 /\ trace' = [trace EXCEPT ![b] = Append(@, "retry")]
                 /\ UNCHANGED <<diagnostic, exitCode>>
            ELSE Panic(b, ExpectMsg, runResult[b][2])
       ELSE Unwrap(b)
    /\ UNCHANGED <<env, plugins, arg, context, phase, events, closedBy>>

\* .expect("error while running tauri application"): on Err the process
\* panics with the message and the error; on Ok main goes on.
Expect(b) ==
    /\ pc[b] = "returned"
    /\ IF IsErr(runResult[b])
       THEN Panic(b, ExpectMsg, runResult[b][2])
       ELSE Unwrap(b)
    /\ UNCHANGED <<env, plugins, arg, context, phase, events, closedBy>>

\* A main that spins instead of returning.
MainReturnSpins(b) ==
    /\ pc[b] = "unwrapped"
    /\ UNCHANGED vars

\* The end of main: the process exits with status 0.
MainReturn(b) ==
    /\ pc[b] = "unwrapped"
    /\ pc' = [pc EXCEPT ![b] = "exited"]
    /\ exitCode' = [exitCode EXCEPT ![b] = <<0>>]
    /\ trace' = [trace EXCEPT ![b] = Append(@, "return")]
    /\ UNCHANGED <<env, plugins, arg, context, phase, events, closedBy,
                   runResult, diagnostic>>

\* The steps main takes itself.
main(b) ==
    \/ BuilderDefault(b)
    \/ SqlBuilderBuild(b)
    \/ Plugin(b)
    \/ GenerateContext(b)
    \/ Run(b)
    \/ Expect(b)
    \/ MainReturn(b)

Next == \E b \in Builds :
    \/ BuilderDefault(b)
    \/ SqlBuilderBuild(b)
    \/ Plugin(b)
    \/ GenerateContext(b)
    \/ Run(b)
    \/ RunSetup(b)
    \/ ServiceEvent(b)
    \/ Close(b)
    \/ RunReturn(b)
    \/ Expect(b)
    \/ MainReturn(b)

Spec == Init /\ [][Next]_vars

\* main is sequential code: a step it can take, it takes; and the run call
\* it has made performs its start-up.
FairSpec ==
    /\ Spec
    /\ \A b \in Builds : WF_vars(main(b)) /\ WF_vars(RunSetup(b))

\* In addition the run call eventually returns: the application is
\* eventually closed, and the loop then ends.
LiveSpec ==
    /\ FairSpec
    /\ \A b \in Builds : WF_vars(Close(b)) /\ WF_vars(RunReturn(b))

\* Everything that belongs to build b.
State(b) == <<env[b], pc[b], plugins[b], arg[b], context[b], phase[b],
              events[b], closedBy[b], runResult[b], diagnostic[b],
              exitCode[b], trace[b]>>

\* C1: whenever run has returned a failure, whatever its cause, main is at
\* the return of run or fatally terminated (never unwrapped, never exited
\* normally); the fatal termination carries the fixed message with the
\* error's detail and a non-zero exit status; and main does get there.
C1_FailureIsFatal ==
    /\ [](\A b \in Builds : IsErr(runResult[b]) =>
            /\ runResult[b][2] \in Causes
            /\ pc[b] \in {"returned", "panicked"}
            /\ pc[b] = "panicked" =>
                  /\ diagnostic[b] = <<ExpectMsg, runResult[b][2]>>
                  /\ exitCode[b] # <<>> /\ exitCode[b][1] # 0)
    /\ \A b \in Builds : IsErr(runResult[b]) ~> pc[b] = "panicked"

C1_Witness ==
    /\ pc["debug"] = "panicked" /\ runResult["debug"] = Err("display")
    /\ pc["release"] = "panicked" /\ runResult["release"] = Err("plugin")

\* C2: once the run call is made the builder holds exactly the one SQL
\* plugin, the registration precedes the run call in the steps main took,
\* and no step after the run call changes the registered plugins.
C2_OnePluginAtRun ==
    /\ [](\A b \in Builds : Count(trace[b], "run") > 0 =>
            /\ plugins[b] = <<SqlPlugin>>
            /\ Len(plugins[b]) = 1
            /\ \E i, j \in 1..Len(trace[b]) :
                  i < j /\ trace[b][i] = "plugin" /\ trace[b][j] = "run")
    /\ [][\A b \in Builds : Count(trace[b], "run") > 0 =>
            plugins'[b] = plugins[b]]_vars

C2_Witness ==
    \E b \in Builds : pc[b] = "run" /\ phase[b] = "setup"
                      /\ plugins[b] = <<SqlPlugin>>

\* C3: in an environment whose start-up does not fail, main eventually is
\* in the run call with the run loop being serviced; and before the run call
\* main has not stopped, has emitted nothing, and has a next step to take.
C3_ReachesRunLoop ==
    /\ \A b \in Builds :
          (env[b] = "ok" /\ pc[b] = "start") ~> (pc[b] = "run" /\ phase[b] = "loop")
    /\ [](\A b \in Builds : pc[b] \in BeforeRun =>
            /\ exitCode[b] = <<>>
            /\ diagnostic[b] = <<>>
            /\ runResult[b] = <<>>
            /\ ENABLED main(b))
    /\ [](\A b \in Builds : Count(trace[b], "run") = 0 => pc[b] \in BeforeRun)

C3_Witness ==
    \E b \in Builds : env[b] = "ok" /\ pc[b] = "run" /\ phase[b] = "loop"
                      /\ Len(events[b]) = MaxEvents

\* C4: main is past the run call only if the application was closed or the
\* start-up failed; while the application is open and started, main stays
\* in run; and after a close without failure the process exits with status
\* 0 and no diagnostic.
C4_BlocksUntilClose ==
    /\ [](\A b \in Builds :
            /\ pc[b] \in PastRun => (closedBy[b] # "none" \/ IsErr(runResult[b]))
            /\ (phase[b] = "loop" /\ closedBy[b] = "none") => pc[b] = "run"
            /\ (pc[b] \in Terminal /\ runResult[b] = Ok) =>
                  /\ closedBy[b] \in Closers
                  /\ pc[b] = "exited"
                  /\ exitCode[b] = <<0>>
                  /\ diagnostic[b] = <<>>)
    /\ [][\A b \in Builds :
            (pc[b] = "run" /\ phase[b] = "loop" /\ closedBy[b] = "none")
               => pc'[b] = "run"]_vars

C4_Witness ==
    \E b \in Builds : pc[b] = "exited" /\ runResult[b] = Ok
                      /\ closedBy[b] = "user" /\ Len(events[b]) > 0

C6_FailFastNoRetry ==
    /\ [](\A b \in Builds :
            /\ Count(trace[b], "construct") <= 1
            /\ Count(trace[b], "plugin") <= 1
            /\ Count(trace[b], "run") <= 1
            /\ IsErr(runResult[b]) => pc[b] \notin {"unwrapped", "exited"})
    /\ [][\A b \in Builds :
            (IsErr(runResult[b]) /\ State(b)' # State(b)) =>
               /\ pc[b] = "returned"
               /\ pc'[b] = "panicked"
               /\ runResult'[b] = runResult[b]
               /\ plugins'[b] = plugins[b]]_vars

C6_Witness ==
    \E b \in Builds : pc[b] = "panicked" /\ IsErr(runResult[b])
                      /\ Count(trace[b], "run") = 1

\* C7 as stated: in every reachable state the diagnostic has been emitted
\* if and only if the run call has returned a failure.
C7_AsStated ==
    \A b \in Builds :
       /\ (diagnostic[b] # <<>>) <=> IsErr(runResult[b])
       /\ ~(Count(trace[b], "return") > 0 /\ Count(trace[b], "panic") > 0)

\* C7 amended: the diagnostic is emitted only after run returned a failure
\* and carries the fixed message; in every state but the one between the
\* return of run and expect it has been emitted if and only if run returned
\* a failure, and in that state it has not been emitted yet; no build both
\* returns from main and panics.
C7_DiagnosticIffFailure ==
    \A b \in Builds :
       /\ diagnostic[b] # <<>> =>
             (IsErr(runResult[b]) /\ diagnostic[b][1] = ExpectMsg)
       /\ pc[b] # "returned" => ((diagnostic[b] # <<>>) <=> IsErr(runResult[b]))
       /\ pc[b] = "returned" => diagnostic[b] = <<>>
       /\ ~(Count(trace[b], "return") > 0 /\ Count(trace[b], "panic") > 0)
       /\ pc[b] = "exited" <=> Count(trace[b], "return") > 0
       /\ pc[b] = "panicked" <=> Count(trace[b], "panic") > 0

C7_Witness ==
    /\ pc["debug"] = "panicked" /\ diagnostic["debug"] = <<ExpectMsg, "window">>
    /\ pc["release"] = "exited" /\ diagnostic["release"] = <<>>

\* C8: given that the run call returns, every build eventually is in a
\* terminal state; a terminated build takes no further step; the exit
\* status is set exactly in the terminal states; and main is never without
\* a next step outside the terminal states and the blocking run call.
C8_Terminates ==
    /\ \A b \in Builds : <>(pc[b] \in Terminal)
    /\ [][\A b \in Builds : pc[b] \in Terminal => State(b)' = State(b)]_vars
    /\ [](\A b \in Builds :
            /\ pc[b] \in Terminal <=> exitCode[b] # <<>>
            /\ pc[b] = "exited" <=> exitCode[b] = <<0>>
            /\ pc[b] \notin (Terminal \cup {"run"}) => ENABLED main(b)
            /\ pc[b] = "run" =>
                  ENABLED (RunSetup(b) \/ ServiceEvent(b) \/ Close(b) \/ RunReturn(b)))

C8_Witness ==
    /\ pc["debug"] = "exited" /\ pc["release"] = "panicked"
    /\ Len(events["debug"]) = MaxEvents
====
